---- MODULE Spec2Model ----
(***************************************************************************)
(* Model of the classic UI theme of fcitx5 (theme.cpp): the three image    *)
(* caches of Theme, the tray/background/action ThemeImage constructors,     *)
(* the nine-patch Theme::paint, the shape extraction Theme::mask and the    *)
(* label abbreviation extractTextForLabel.                                  *)
(***************************************************************************)
EXTENDS Integers, Sequences, FiniteSets, TLC

VARIABLES
    trayImageTable_,        \* Theme::trayImageTable_ : key string -> ThemeImage
    backgroundImageTable_,  \* Theme::backgroundImageTable_ : &cfg -> ThemeImage
    actionImageTable_,      \* Theme::actionImageTable_ : &cfg -> ThemeImage
    iconTheme_,             \* Theme::iconTheme_.internalName()
    name_,                  \* Theme::name_
    themeConfig,            \* contents of the ThemeConfig fields (the cfg objects)
    last,                   \* the last call on Theme: operation, arguments, result
    requested               \* per (icon, label): size last asked of loadImage since
                            \* trayImageTable_ was last cleared

cacheVars == <<trayImageTable_, backgroundImageTable_, actionImageTable_,
               iconTheme_, name_, themeConfig, last, requested>>

VARIABLES
    little,       \* G_BYTE_ORDER == G_LITTLE_ENDIAN of the build
    maskWidth,    \* width handed to Theme::mask
    maskHeight,   \* height handed to Theme::mask
    maskData,     \* the A1 surface after paint: per row, its bytes
    maskSpans,    \* the spans AddSpan united into the region, in order
    maskResult,   \* the std::vector<Rect> Theme::mask returned
    maskDone      \* Theme::mask has returned

maskVars == <<little, maskWidth, maskHeight, maskData, maskSpans, maskResult, maskDone>>

VARIABLES
    paintArgs,    \* the cfg, width and height of the last Theme::paint call
    canvas,       \* the target surface after it: resolved size, pixels
    paintedParts, \* the parts (1..9, "overlay") whose paint step ran
    paintDone     \* Theme::paint has returned

paintVars == <<paintArgs, canvas, paintedParts, paintDone>>

\* drawTextIcon's use of extractTextForLabel: the label given and the
\* (text, width) pair extracted from it; the icon size given and the font pixel
\* size computed from both.
VARIABLES
    rawLabel,
    extracted,
    labelDone,
    iconSize,
    pixelSize

labelVars == <<rawLabel, extracted, labelDone, iconSize, pixelSize>>

vars == <<cacheVars, maskVars, paintVars, labelVars>>

\* What the operations on the caches leave alone.
notCacheVars == <<maskVars, paintVars, labelVars>>

Max(a, b) == IF a >= b THEN a ELSE b
Min(a, b) == IF a <= b THEN a ELSE b

EmptyTable == <<>>

\* A cairo_surface_t pointer that is nullptr.
NullSurface == [kind |-> "null", width |-> 0, height |-> 0]

\* A surface of the given origin ("file", "text", "drawn") and size.
Surface(kind, width, height) == [kind |-> kind, width |-> width, height |-> height]

(***************************************************************************)
(* Inputs of the cache specification.                                      *)
(***************************************************************************)
\* (icon, label) pairs handed to loadImage.
TrayRequests ==
    { <<"x", "label:y">>, <<"xlabel:", "y">>, <<"input-keyboard", "us">> }
TraySizes == {16, 24}
IconThemeNames == {"hicolor", "breeze"}
ThemeNames == {"default"}
\* The cfg objects of ThemeConfig the callers pass by reference.
BackgroundCfgs == {"inputPanel.background", "menu.background"}
ActionCfgs == {"inputPanel.prev", "inputPanel.next"}

Margin(l, r, t, b) ==
    [marginLeft |-> l, marginRight |-> r, marginTop |-> t, marginBottom |-> b]

BackgroundImageConfig(image, overlay, margin) ==
    [image |-> image, overlay |-> overlay, margin |-> margin,
     overlayClipMargin |-> Margin(0, 0, 0, 0), gravity |-> "TopLeft",
     overlayOffsetX |-> 0, overlayOffsetY |-> 0, hideOverlayIfOversize |-> FALSE]

\* Two theme.conf contents: one naming image files, one naming none.
ThemeConfigs ==
    { [background |->
          [c \in BackgroundCfgs |->
              IF c = "inputPanel.background"
              THEN BackgroundImageConfig("panel.png", "badge.png", Margin(2, 2, 2, 2))
              ELSE BackgroundImageConfig("", "", Margin(1, 1, 1, 1))],
       action |->
          [c \in ActionCfgs |->
              [image |-> IF c = "inputPanel.prev" THEN "prev.png" ELSE ""]]],
      [background |->
          [c \in BackgroundCfgs |-> BackgroundImageConfig("", "", Margin(0, 0, 0, 0))],
       action |-> [c \in ActionCfgs |-> [image |-> ""]]] }

\* What loadImage(StandardPathFile&) can return for a file: nullptr or a surface.
CacheDecodes == {NullSurface, Surface("file", 8, 8)}

\* What the constructors read beside their arguments: the decoded image and overlay
\* files, hasTwoKeyboardInCurrentGroup and the preferTextIcon setting.
BackgroundEnvs ==
    { [image |-> Surface("file", 8, 8), overlay |-> Surface("file", 2, 2)],
      [image |-> NullSurface, overlay |-> NullSurface] }
TrayEnvs ==
    { [twoKeyboards |-> FALSE, preferTextIcon |-> FALSE, decoded |-> Surface("file", 8, 8)],
      [twoKeyboards |-> FALSE, preferTextIcon |-> FALSE, decoded |-> NullSurface],
      [twoKeyboards |-> TRUE, preferTextIcon |-> FALSE, decoded |-> Surface("file", 8, 8)],
      [twoKeyboards |-> FALSE, preferTextIcon |-> TRUE, decoded |-> Surface("file", 8, 8)] }

(***************************************************************************)
(* ThemeImage constructors.                                                *)
(***************************************************************************)
\* ThemeImage(iconTheme, icon, label, size, classicui): the tray image.
ThemeImageTray(icon, label, size, twoKeyboards, preferTextIconCfg, decoded) ==
    LET preferTextIcon ==
            label # "" /\ ((icon = "input-keyboard" /\ twoKeyboards) \/ preferTextIconCfg)
        loaded == IF ~preferTextIcon /\ icon # "" THEN decoded ELSE NullSurface
        image == IF loaded = NullSurface THEN Surface("text", size, size) ELSE loaded
    IN  [image_ |-> image, overlay_ |-> NullSurface, size_ |-> size,
         icon |-> icon, label |-> label]

\* The background constructor without its drawn fallback.
ThemeImageBackgroundNoFallback(cfg, decodedImage, decodedOverlay) ==
    [image_ |-> IF cfg.image # "" THEN decodedImage ELSE NullSurface,
     overlay_ |-> IF cfg.overlay # "" THEN decodedOverlay ELSE NullSurface,
     size_ |-> 0]

\* ThemeImage(name, BackgroundImageConfig): file image or drawn fallback, overlay.
ThemeImageBackground(cfg, decodedImage, decodedOverlay) ==
    LET loaded == IF cfg.image # "" THEN decodedImage ELSE NullSurface
        overlay == IF cfg.overlay # "" THEN decodedOverlay ELSE NullSurface
        minimumSize == 20
        m == cfg.margin
        width == m.marginLeft + m.marginRight
                     + Max(m.marginLeft + m.marginRight, minimumSize)
        height == m.marginTop + m.marginBottom
                     + Max(m.marginTop + m.marginBottom, minimumSize)
        image == IF loaded = NullSurface THEN Surface("drawn", width, height) ELSE loaded
    IN  [image_ |-> image, overlay_ |-> overlay, size_ |-> 0]

\* ThemeImage(name, ActionImageConfig): file image, no fallback.
ThemeImageAction(cfg, decoded) ==
    [image_ |-> IF cfg.image # "" THEN decoded ELSE NullSurface,
     overlay_ |-> NullSurface, size_ |-> 0]

(***************************************************************************)
(* The cache lookups.  Each returns the table after the call.              *)
(***************************************************************************)
Without(map, key) == [k \in DOMAIN map \ {key} |-> map[k]]

Emplace(map, key, value) ==
    [k \in DOMAIN map \cup {key} |-> IF k = key THEN value ELSE map[k]]

\* The outcome of a lookup: the table after it, whether a ThemeImage was
\* constructed and whether an entry was erased (its ThemeImage destroyed).
Outcome(table, constructed, erased) ==
    [table |-> table, constructed |-> constructed, erased |-> erased]

\* Theme::loadBackground: findValue, else emplace.
loadBackground(map, cfg, built) ==
    IF cfg \in DOMAIN map
    THEN Outcome(map, FALSE, FALSE)
    ELSE Outcome(Emplace(map, cfg, built), TRUE, FALSE)

\* Theme::loadAction: findValue, else emplace.
loadAction(map, cfg, built) ==
    IF cfg \in DOMAIN map
    THEN Outcome(map, FALSE, FALSE)
    ELSE Outcome(Emplace(map, cfg, built), TRUE, FALSE)

\* The key of the tray table.
TrayKey(icon, label) == "icon:" \o icon \o "label:" \o label

\* loadImage that constructs anew on every call.
loadImageAlwaysBuilds(map, name, size, built) ==
    Outcome(Emplace(Without(map, name), name, built), TRUE, name \in DOMAIN map)

\* loadImage that clears the whole table where it should erase one entry.
loadImageClearsTable(map, name, size, built) ==
    IF name \in DOMAIN map
    THEN IF map[name].size_ = size
         THEN Outcome(map, FALSE, FALSE)
         ELSE Outcome(Emplace(EmptyTable, name, built), TRUE, TRUE)
    ELSE Outcome(Emplace(map, name, built), TRUE, FALSE)

\* Theme::loadImage: findValue; the same size returns the entry, another size
\* erases it, and a new ThemeImage is emplaced.
loadImage(map, name, size, built) ==
    IF name \in DOMAIN map
    THEN IF map[name].size_ = size
         THEN Outcome(map, FALSE, FALSE)
         ELSE Outcome(Emplace(Without(map, name), name, built), TRUE, TRUE)
    ELSE Outcome(Emplace(map, name, built), TRUE, FALSE)

\* setIconTheme that clears the tray table even when the name is the current one.
setIconThemeAlwaysClears(iconTheme, map, name) ==
    [iconTheme |-> name, table |-> EmptyTable, ret |-> iconTheme # name]

\* Theme::setIconTheme on the icon theme name and the tray table.
setIconTheme(iconTheme, map, name) ==
    IF iconTheme # name
    THEN [iconTheme |-> name, table |-> EmptyTable, ret |-> TRUE]
    ELSE [iconTheme |-> iconTheme, table |-> map, ret |-> FALSE]

(***************************************************************************)
(* The operations of Theme, as actions.                                    *)
(***************************************************************************)
Call(op, arg, outcome, ret) ==
    [op |-> op, arg |-> arg, constructed |-> outcome.constructed,
     erased |-> outcome.erased, ret |-> ret]

NoOutcome == Outcome(EmptyTable, FALSE, FALSE)

LoadBackground(cfg, decodedImage, decodedOverlay) ==
    LET built == ThemeImageBackground(themeConfig.background[cfg],
                                      decodedImage, decodedOverlay)
        out == loadBackground(backgroundImageTable_, cfg, built)
    IN  /\ backgroundImageTable_' = out.table
        /\ last' = Call("loadBackground", cfg, out, out.table[cfg])
        /\ UNCHANGED <<trayImageTable_, actionImageTable_, iconTheme_, name_,
                       themeConfig, requested,
                       notCacheVars>>

LoadAction(cfg, decoded) ==
    LET built == ThemeImageAction(themeConfig.action[cfg], decoded)
        out == loadAction(actionImageTable_, cfg, built)
    IN  /\ actionImageTable_' = out.table
        /\ last' = Call("loadAction", cfg, out, out.table[cfg])
        /\ UNCHANGED <<trayImageTable_, backgroundImageTable_, iconTheme_, name_,
                       themeConfig, requested,
                       notCacheVars>>

LoadImage(icon, label, size, twoKeyboards, preferTextIconCfg, decoded) ==
    LET name == TrayKey(icon, label)
        built == ThemeImageTray(icon, label, size, twoKeyboards,
                                preferTextIconCfg, decoded)
        out == loadImage(trayImageTable_, name, size, built)
    IN  /\ trayImageTable_' = out.table
        /\ last' = Call("loadImage", <<icon, label, size>>, out, out.table[name])
        /\ requested' = Emplace(requested, <<icon, label>>, size)
        /\ UNCHANGED <<backgroundImageTable_, actionImageTable_, iconTheme_, name_,
                       themeConfig,
                       notCacheVars>>

\* Theme::reset
Reset ==
    /\ trayImageTable_' = EmptyTable
    /\ backgroundImageTable_' = EmptyTable
    /\ actionImageTable_' = EmptyTable
    /\ requested' = EmptyTable
    /\ last' = Call("reset", "", NoOutcome, FALSE)
    /\ UNCHANGED <<iconTheme_, name_, themeConfig,
                       notCacheVars>>

\* Theme::load(name): reset, read theme.conf (system, then user), set name_.
Load(name, config) ==
    /\ trayImageTable_' = EmptyTable
    /\ backgroundImageTable_' = EmptyTable
    /\ actionImageTable_' = EmptyTable
    /\ requested' = EmptyTable
    /\ themeConfig' = config
    /\ name_' = name
    /\ last' = Call("load", name, NoOutcome, FALSE)
    /\ UNCHANGED <<iconTheme_, notCacheVars>>

\* Theme::load(name, rawConfig): reset, load the given configuration, set name_.
LoadRaw(name, rawConfig) ==
    /\ trayImageTable_' = EmptyTable
    /\ backgroundImageTable_' = EmptyTable
    /\ actionImageTable_' = EmptyTable
    /\ requested' = EmptyTable
    /\ themeConfig' = rawConfig
    /\ name_' = name
    /\ last' = Call("loadRaw", name, NoOutcome, FALSE)
    /\ UNCHANGED <<iconTheme_, notCacheVars>>

\* Theme::setIconTheme
SetIconTheme(name) ==
    LET out == setIconTheme(iconTheme_, trayImageTable_, name)
    IN  /\ iconTheme_' = out.iconTheme
        /\ trayImageTable_' = out.table
        /\ requested' = IF out.ret THEN EmptyTable ELSE requested
        /\ last' = Call("setIconTheme", name, NoOutcome, out.ret)
        /\ UNCHANGED <<backgroundImageTable_, actionImageTable_, name_, themeConfig,
                       notCacheVars>>

LabelIdle ==
    /\ rawLabel = <<>>
    /\ extracted = [text |-> <<>>, width |-> 0]
    /\ labelDone = FALSE
    /\ iconSize = 0
    /\ pixelSize = 0

PaintIdle ==
    /\ paintArgs = <<>>
    /\ canvas = <<>>
    /\ paintedParts = {}
    /\ paintDone = FALSE

MaskIdle ==
    /\ little = TRUE
    /\ maskWidth = 0
    /\ maskHeight = 0
    /\ maskData = <<>>
    /\ maskSpans = <<>>
    /\ maskResult = <<>>
    /\ maskDone = FALSE

CacheIdle ==
    /\ trayImageTable_ = EmptyTable
    /\ backgroundImageTable_ = EmptyTable
    /\ actionImageTable_ = EmptyTable
    /\ iconTheme_ = "hicolor"
    /\ name_ = ""
    /\ themeConfig = <<>>
    /\ last = Call("Theme", "", NoOutcome, FALSE)
    /\ requested = EmptyTable

Init ==
    /\ MaskIdle
    /\ PaintIdle
    /\ LabelIdle
    /\ trayImageTable_ = EmptyTable
    /\ backgroundImageTable_ = EmptyTable
    /\ actionImageTable_ = EmptyTable
    /\ iconTheme_ = "hicolor"
    /\ name_ = ""
    /\ themeConfig \in ThemeConfigs
    /\ last = Call("Theme", "", NoOutcome, FALSE)
    /\ requested = EmptyTable

CacheNext ==
    \/ \E cfg \in BackgroundCfgs, env \in BackgroundEnvs :
           LoadBackground(cfg, env.image, env.overlay)
    \/ \E cfg \in ActionCfgs, d \in CacheDecodes : LoadAction(cfg, d)
    \/ \E r \in TrayRequests, size \in TraySizes, env \in TrayEnvs :
           LoadImage(r[1], r[2], size, env.twoKeyboards, env.preferTextIcon, env.decoded)
    \/ Reset
    \/ \E name \in ThemeNames, config \in ThemeConfigs : Load(name, config)
    \/ \E name \in ThemeNames, config \in ThemeConfigs : LoadRaw(name, config)
    \/ \E name \in IconThemeNames : SetIconTheme(name)

Next == CacheNext

Spec == Init /\ [][Next]_vars

(***************************************************************************)
(* Theme::mask: the scan of the A1 surface and the region of its spans.    *)
(***************************************************************************)
\* Largest width and height of the A1 surface.
MaxMaskWidth == 16
MaxMaskHeight == 2
\* The bytes a row of the surface is made of: all clear, all set, mixed.
MaskBytes == {0, 255, 29}

Rect(x, y, width, height) == [x |-> x, y |-> y, width |-> width, height |-> height]

\* CAIRO_FORMAT_A1: pixel x of a row is bit x % 8 of byte x / 8, counted from the
\* least significant bit on a little-endian build, from the most significant
\* bit on a big-endian one.
Opaque(data, x, y, isLittle) ==
    LET byte == data[y + 1][(x \div 8) + 1]
        j == x % 8
    IN  IF isLittle THEN (byte \div (2 ^ j)) % 2 = 1
                    ELSE (byte \div (2 ^ (7 - j))) % 2 = 1

ScanState(x, all, prev1, spans) ==
    [x |-> x, all |-> all, prev1 |-> prev1, spans |-> spans]

\* The inner loop: up to 8 bits of one byte, bit by bit.
RECURSIVE ScanBits(_, _, _, _, _, _)
ScanBits(byte, b, st, width, y, isLittle) ==
    IF b > 0 /\ st.x < width
    THEN LET bit == IF isLittle THEN byte % 2 ELSE (byte \div 128) % 2
             same == (bit = 0) = (st.all = 0)
             next ==
                 IF same
                 THEN ScanState(st.x + 1, st.all, st.prev1, st.spans)
                 ELSE IF st.all # 0
                      THEN ScanState(st.x + 1, 0, st.prev1,
                                     Append(st.spans,
                                            Rect(st.prev1, y, st.x - st.prev1, 1)))
                      ELSE ScanState(st.x + 1, 255, st.x, st.spans)
             shifted == IF isLittle THEN byte \div 2 ELSE (byte * 2) % 256
         IN  ScanBits(shifted, b - 1, next, width, y, isLittle)
    ELSE st

\* ScanRow that decodes a byte equal to the running state only in the last byte.
RECURSIVE ScanRowSkipsLastByte(_, _, _, _, _)
ScanRowSkipsLastByte(row, st, width, y, isLittle) ==
    IF st.x < width
    THEN LET byte == row[(st.x \div 8) + 1]
         IN  IF byte # st.all
             THEN ScanRowSkipsLastByte(row, ScanBits(byte, 8, st, width, y, isLittle),
                                       width, y, isLittle)
             ELSE ScanRowSkipsLastByte(row,
                                       ScanState(st.x + 8, st.all, st.prev1, st.spans),
                                       width, y, isLittle)
    ELSE IF st.all # 0
         THEN Append(st.spans, Rect(st.prev1, y, st.x - st.prev1, 1))
         ELSE st.spans

\* ScanRow without the span that is still open at the end of the row.
RECURSIVE ScanRowDropsOpenSpan(_, _, _, _, _)
ScanRowDropsOpenSpan(row, st, width, y, isLittle) ==
    IF st.x < width
    THEN LET byte == row[(st.x \div 8) + 1]
         IN  IF st.x > width - 8 \/ byte # st.all
             THEN ScanRowDropsOpenSpan(row, ScanBits(byte, 8, st, width, y, isLittle),
                                       width, y, isLittle)
             ELSE ScanRowDropsOpenSpan(row,
                                       ScanState(st.x + 8, st.all, st.prev1, st.spans),
                                       width, y, isLittle)
    ELSE st.spans

\* The loop over x of one row: a byte equal to the running state is skipped whole
\* unless it is the last, partial one; the span open at the end of the row is added.
RECURSIVE ScanRow(_, _, _, _, _)
ScanRow(row, st, width, y, isLittle) ==
    IF st.x < width
    THEN LET byte == row[(st.x \div 8) + 1]
         IN  IF st.x > width - 8 \/ byte # st.all
             THEN ScanRow(row, ScanBits(byte, 8, st, width, y, isLittle),
                          width, y, isLittle)
             ELSE ScanRow(row, ScanState(st.x + 8, st.all, st.prev1, st.spans),
                          width, y, isLittle)
    ELSE IF st.all # 0
         THEN Append(st.spans, Rect(st.prev1, y, st.x - st.prev1, 1))
         ELSE st.spans

\* The loop over y: the spans of all rows, in the order they are added.
RECURSIVE ScanRows(_, _, _, _, _)
ScanRows(data, y, width, height, isLittle) ==
    IF y < height
    THEN ScanRow(data[y + 1], ScanState(0, 0, -1, <<>>), width, y, isLittle)
             \o ScanRows(data, y + 1, width, height, isLittle)
    ELSE <<>>

\* cairo_region_t as the set of the pixels it covers.
RectPixels(r) ==
    {<<x, y>> : x \in r.x .. (r.x + r.width - 1), y \in r.y .. (r.y + r.height - 1)}

\* cairo_region_union_rectangle, span by span.
RECURSIVE RegionUnion(_, _, _)
RegionUnion(region, spans, i) ==
    IF i > Len(spans) THEN region
    ELSE RegionUnion(region \cup RectPixels(spans[i]), spans, i + 1)

\* The maximal runs <<x1, x2>> (x2 exclusive) of row y of a region, left to right.
RECURSIVE RowRuns(_, _, _, _)
RowRuns(region, y, x, width) ==
    IF x >= width THEN <<>>
    ELSE IF <<x, y>> \in region
         THEN LET x2 == CHOOSE e \in (x + 1) .. width :
                            /\ \A z \in x .. (e - 1) : <<z, y>> \in region
                            /\ (e = width \/ <<e, y>> \notin region)
              IN  <<<<x, x2>>>> \o RowRuns(region, y, x2, width)
         ELSE RowRuns(region, y, x + 1, width)

BandRects(runs, y1, y2) ==
    [i \in 1 .. Len(runs) |-> Rect(runs[i][1], y1, runs[i][2] - runs[i][1], y2 - y1)]

\* The rectangles of a region as cairo_region_get_rectangle lists them: bands of
\* rows top to bottom, each band's rectangles left to right, consecutive rows with
\* the same runs forming one band.
RECURSIVE RegionRectangles(_, _, _, _, _, _)
RegionRectangles(region, y, width, height, y1, runs) ==
    IF y >= height
    THEN BandRects(runs, y1, y)
    ELSE LET r == RowRuns(region, y, 0, width)
         IN  IF r = runs
             THEN RegionRectangles(region, y + 1, width, height, y1, runs)
             ELSE BandRects(runs, y1, y)
                      \o RegionRectangles(region, y + 1, width, height, y, r)

\* The part of Theme::mask after paint: scan, union, list the rectangles.
maskScan(data, width, height, isLittle) ==
    LET spans == ScanRows(data, 0, width, height, isLittle)
        region == RegionUnion({}, spans, 1)
    IN  [spans |-> spans,
         result |-> RegionRectangles(region, 0, width, height, 0, <<>>)]

\* Theme::mask on the surface paint has rendered.
Mask ==
    /\ ~maskDone
    /\ maskSpans' = maskScan(maskData, maskWidth, maskHeight, little).spans
    /\ maskResult' = maskScan(maskData, maskWidth, maskHeight, little).result
    /\ maskDone' = TRUE
    /\ UNCHANGED <<little, maskWidth, maskHeight, maskData, cacheVars, paintVars,
                   labelVars>>

\* The surfaces Theme::mask scans: any size, any rows of bytes, either byte order.
MaskInit ==
    /\ little \in BOOLEAN
    /\ maskWidth \in 1 .. MaxMaskWidth
    /\ maskHeight \in 1 .. MaxMaskHeight
    /\ maskData \in [1 .. maskHeight -> [1 .. ((maskWidth + 7) \div 8) -> MaskBytes]]
    /\ maskSpans = <<>>
    /\ maskResult = <<>>
    /\ maskDone = FALSE
    /\ CacheIdle
    /\ PaintIdle
    /\ LabelIdle

MaskNext == Mask

SpecMask == MaskInit /\ [][MaskNext]_vars

(***************************************************************************)
(* Theme::paint(cairo_t *, BackgroundImageConfig, width, height, alpha),   *)
(* called as Theme::mask calls it: alpha 1 on a context whose operator is  *)
(* CAIRO_OPERATOR_SOURCE and whose target starts out transparent.          *)
(***************************************************************************)
\* Largest margin, decoded image side and requested target side.
MaxMargin == 1
MaxImage == 3
MaxTarget == 3

Gravities ==
    {"TopLeft", "TopCenter", "TopRight", "CenterLeft", "Center", "CenterRight",
     "BottomLeft", "BottomCenter", "BottomRight"}

\* Integer division of C: the quotient truncated toward zero.
CDiv(a, b) == IF a >= 0 THEN a \div b ELSE -((-a) \div b)

\* fcitx::Rect
RectLeft(r) == r.x
RectTop(r) == r.y
RectRight(r) == r.x + r.width
RectBottom(r) == r.y + r.height
RectIsEmpty(r) == r.width <= 0 \/ r.height <= 0
RectIntersected(a, b) ==
    LET x1 == Max(RectLeft(a), RectLeft(b))
        y1 == Max(RectTop(a), RectTop(b))
        x2 == Min(RectRight(a), RectRight(b))
        y2 == Min(RectBottom(a), RectBottom(b))
    IN  IF x1 < x2 /\ y1 < y2 THEN Rect(x1, y1, x2 - x1, y2 - y1) ELSE Rect(0, 0, 0, 0)
RectContainsPoint(r, x, y) ==
    RectLeft(r) <= x /\ x <= RectRight(r) /\ RectTop(r) <= y /\ y <= RectBottom(r)
RectContains(a, b) ==
    /\ RectContainsPoint(a, RectLeft(b), RectTop(b))
    /\ RectContainsPoint(a, RectRight(b), RectBottom(b))

\* Pixel values.  The source image is left free: its pixel (sx, sy) stands for itself.
Clear == <<"clear">>
ImagePixel(image, sx, sy) ==
    IF 0 <= sx /\ sx < image.width /\ 0 <= sy /\ sy < image.height
    THEN <<"image", sx, sy>>
    ELSE Clear
\* The default filter's sample of the image at the source position that lies
\* num/den past the left (axis 0) or top (axis 1) margin, in row/column other.
FilteredPixel(axis, num, den, other) == <<"filtered", axis, num, den, other>>
\* CAIRO_OPERATOR_OVER: overlay pixel (ox, oy) over what is there.
OverPixel(ox, oy, under) == <<"over", ox, oy, under>>

\* The sizes paint computes before it draws (lines 404-433).
\* The sizes without the clamp of the resize region.
PaintGeometryNoClamp(image, cfg, width, height) ==
    LET m == cfg.margin
        resizeHeight == image.height - m.marginTop - m.marginBottom
        resizeWidth == image.width - m.marginLeft - m.marginRight
        h == IF height < 0 THEN resizeHeight ELSE height
        w == IF width < 0 THEN resizeWidth ELSE width
    IN  [resizeWidth |-> resizeWidth, resizeHeight |-> resizeHeight,
         width |-> w, height |-> h,
         targetResizeWidth |-> w - m.marginLeft - m.marginRight,
         targetResizeHeight |-> h - m.marginTop - m.marginBottom]

PaintGeometry(image, cfg, width, height) ==
    LET m == cfg.margin
        rh == image.height - m.marginTop - m.marginBottom
        rw == image.width - m.marginLeft - m.marginRight
        resizeHeight == IF rh <= 0 THEN 1 ELSE rh
        resizeWidth == IF rw <= 0 THEN 1 ELSE rw
        h == IF height < 0 THEN resizeHeight ELSE height
        w == IF width < 0 THEN resizeWidth ELSE width
    IN  [resizeWidth |-> resizeWidth, resizeHeight |-> resizeHeight,
         width |-> w, height |-> h,
         targetResizeWidth |-> w - m.marginLeft - m.marginRight,
         targetResizeHeight |-> h - m.marginTop - m.marginBottom]

\* The nine paint steps in the order of the code, each with its condition and
\* the device rectangle its clip covers.
PaintSteps(cfg, g) ==
    LET m == cfg.margin
        mT == m.marginTop
        mB == m.marginBottom
        mL == m.marginLeft
        mR == m.marginRight
        trw == g.targetResizeWidth
        trh == g.targetResizeHeight
        Step(part, on, x, y, w, h) == [part |-> part, on |-> on, clip |-> Rect(x, y, w, h)]
    IN  << Step(1, mL # 0 /\ mB # 0, 0, g.height - mB, mL, mB),
           Step(3, mR # 0 /\ mB # 0, g.width - mR, g.height - mB, mR, mB),
           Step(7, mL # 0 /\ mT # 0, 0, 0, mL, mT),
           Step(9, mR # 0 /\ mT # 0, g.width - mR, 0, mR, mT),
           Step(8, mT # 0 /\ trw > 0, mL, 0, trw, mT),
           Step(2, mB # 0 /\ trw > 0, mL, g.height - mB, trw, mB),
           Step(4, mL # 0 /\ trh > 0, 0, mT, mL, trh),
           Step(6, mR # 0 /\ trh > 0, g.width - mR, mT, mR, trh),
           Step(5, trh > 0 /\ trw > 0, mL, mT, trw, trh) >>

\* CAIRO_FILTER_NEAREST: the source pixel, counted from the margin, that the centre
\* of target pixel k of a stretch of `target` pixels over `resize` source pixels
\* falls into; a centre exactly on a pixel border takes the lower pixel.
Nearest(k, resize, target) ==
    LET num == (2 * k + 1) * resize
        den == 2 * target
    IN  IF num % den = 0 THEN (num \div den) - 1 ELSE num \div den

\* A paint whose right-hand corners are offset by the target's stretch width
\* instead of the source's; the edges and the centre are copied unscaled.
PaintSampleCornerByTarget(part, image, cfg, g, dx, dy) ==
    LET m == cfg.margin
        rightX == (dx - (g.width - m.marginRight)) + m.marginLeft + g.targetResizeWidth
        bottomY == (dy - (g.height - m.marginBottom)) + m.marginTop + g.resizeHeight
    IN  CASE part = 1 -> ImagePixel(image, dx, bottomY)
          [] part = 3 -> ImagePixel(image, rightX, bottomY)
          [] part = 7 -> ImagePixel(image, dx, dy)
          [] part = 9 -> ImagePixel(image, rightX, dy)
          [] OTHER -> ImagePixel(image, dx, dy)

\* What a step draws at device pixel (dx, dy) of its clip.
PaintSample(part, image, cfg, g, dx, dy) ==
    LET m == cfg.margin
        rw == g.resizeWidth
        rh == g.resizeHeight
        trw == g.targetResizeWidth
        trh == g.targetResizeHeight
        kx == dx - m.marginLeft
        ky == dy - m.marginTop
        \* unscaled columns and rows
        leftX == dx
        rightX == (dx - (g.width - m.marginRight)) + m.marginLeft + rw
        topY == dy
        bottomY == (dy - (g.height - m.marginBottom)) + m.marginTop + rh
    IN  CASE part = 1 -> ImagePixel(image, leftX, bottomY)
          [] part = 3 -> ImagePixel(image, rightX, bottomY)
          [] part = 7 -> ImagePixel(image, leftX, topY)
          [] part = 9 -> ImagePixel(image, rightX, topY)
          [] part = 8 -> IF trw = rw THEN ImagePixel(image, m.marginLeft + kx, topY)
                         ELSE FilteredPixel(0, (2 * kx + 1) * rw, 2 * trw, topY)
          [] part = 2 -> IF trw = rw THEN ImagePixel(image, m.marginLeft + kx, bottomY)
                         ELSE FilteredPixel(0, (2 * kx + 1) * rw, 2 * trw, bottomY)
          [] part = 4 -> IF trh = rh THEN ImagePixel(image, leftX, m.marginTop + ky)
                         ELSE FilteredPixel(1, (2 * ky + 1) * rh, 2 * trh, leftX)
          [] part = 6 -> IF trh = rh THEN ImagePixel(image, rightX, m.marginTop + ky)
                         ELSE FilteredPixel(1, (2 * ky + 1) * rh, 2 * trh, rightX)
          [] part = 5 -> ImagePixel(image, m.marginLeft + Nearest(kx, rw, trw),
                                    m.marginTop + Nearest(ky, rh, trh))

\* The overlay step with one of two slips: the right column adding the offset
\* instead of subtracting it, or the oversize test made against the rectangle
\* already cut to the clip rectangle.
PaintOverlayVariant(themeImage, cfg, g, slip) ==
    LET none == [drawn |-> FALSE, x |-> 0, y |-> 0, rect |-> Rect(0, 0, 0, 0),
                 clipRect |-> Rect(0, 0, 0, 0), finalRect |-> Rect(0, 0, 0, 0)]
        cm == cfg.overlayClipMargin
        clipWidth == g.width - cm.marginLeft - cm.marginRight
        clipHeight == g.height - cm.marginTop - cm.marginBottom
        clipRect == Rect(cm.marginLeft, cm.marginTop, clipWidth, clipHeight)
        ow == themeImage.overlay_.width
        oh == themeImage.overlay_.height
        x == CASE cfg.gravity \in {"TopLeft", "CenterLeft", "BottomLeft"} ->
                      cfg.overlayOffsetX
               [] cfg.gravity \in {"TopCenter", "Center", "BottomCenter"} ->
                      CDiv(g.width - ow, 2) + cfg.overlayOffsetX
               [] cfg.gravity \in {"TopRight", "CenterRight", "BottomRight"} ->
                      IF slip = "rightAddsOffset"
                      THEN g.width - ow + cfg.overlayOffsetX
                      ELSE g.width - ow - cfg.overlayOffsetX
        y == CASE cfg.gravity \in {"TopLeft", "TopCenter", "TopRight"} ->
                      cfg.overlayOffsetY
               [] cfg.gravity \in {"CenterLeft", "Center", "CenterRight"} ->
                      CDiv(g.height - oh, 2) + cfg.overlayOffsetY
               [] cfg.gravity \in {"BottomLeft", "BottomCenter", "BottomRight"} ->
                      g.height - oh - cfg.overlayOffsetY
        rect == Rect(x, y, ow, oh)
        finalRect == RectIntersected(rect, clipRect)
        tested == IF slip = "testsFinalRect" THEN finalRect ELSE rect
        found == [drawn |-> FALSE, x |-> x, y |-> y, rect |-> rect,
                  clipRect |-> clipRect, finalRect |-> finalRect]
    IN  IF themeImage.overlay_ = NullSurface THEN none
        ELSE IF clipWidth <= 0 \/ clipHeight <= 0 THEN none
        ELSE IF RectIsEmpty(finalRect) THEN found
        ELSE IF cfg.hideOverlayIfOversize /\ ~RectContains(clipRect, tested) THEN found
        ELSE [found EXCEPT !.drawn = TRUE]

PaintOverlayRightAddsOffset(themeImage, cfg, g) ==
    PaintOverlayVariant(themeImage, cfg, g, "rightAddsOffset")

PaintOverlayTestsFinalRect(themeImage, cfg, g) ==
    PaintOverlayVariant(themeImage, cfg, g, "testsFinalRect")

\* The overlay step (lines 551-623): whether it draws, where, and the overlay's
\* position.
PaintOverlay(themeImage, cfg, g) ==
    LET none == [drawn |-> FALSE, x |-> 0, y |-> 0, rect |-> Rect(0, 0, 0, 0),
                 clipRect |-> Rect(0, 0, 0, 0), finalRect |-> Rect(0, 0, 0, 0)]
        cm == cfg.overlayClipMargin
        clipWidth == g.width - cm.marginLeft - cm.marginRight
        clipHeight == g.height - cm.marginTop - cm.marginBottom
        clipRect == Rect(cm.marginLeft, cm.marginTop, clipWidth, clipHeight)
        ow == themeImage.overlay_.width
        oh == themeImage.overlay_.height
        x == CASE cfg.gravity \in {"TopLeft", "CenterLeft", "BottomLeft"} ->
                      cfg.overlayOffsetX
               [] cfg.gravity \in {"TopCenter", "Center", "BottomCenter"} ->
                      CDiv(g.width - ow, 2) + cfg.overlayOffsetX
               [] cfg.gravity \in {"TopRight", "CenterRight", "BottomRight"} ->
                      g.width - ow - cfg.overlayOffsetX
        y == CASE cfg.gravity \in {"TopLeft", "TopCenter", "TopRight"} ->
                      cfg.overlayOffsetY
               [] cfg.gravity \in {"CenterLeft", "Center", "CenterRight"} ->
                      CDiv(g.height - oh, 2) + cfg.overlayOffsetY
               [] cfg.gravity \in {"BottomLeft", "BottomCenter", "BottomRight"} ->
                      g.height - oh - cfg.overlayOffsetY
        rect == Rect(x, y, ow, oh)
        finalRect == RectIntersected(rect, clipRect)
        found == [drawn |-> FALSE, x |-> x, y |-> y, rect |-> rect,
                  clipRect |-> clipRect, finalRect |-> finalRect]
    IN  IF themeImage.overlay_ = NullSurface THEN none
        ELSE IF clipWidth <= 0 \/ clipHeight <= 0 THEN none
        ELSE IF RectIsEmpty(finalRect) THEN found
        ELSE IF cfg.hideOverlayIfOversize /\ ~RectContains(clipRect, rect) THEN found
        ELSE [found EXCEPT !.drawn = TRUE]

InRect(r, x, y) ==
    RectLeft(r) <= x /\ x < RectRight(r) /\ RectTop(r) <= y /\ y < RectBottom(r)

\* The whole of paint: the target of the resolved size afterwards.  A pixel holds
\* what the last step covering it drew, the overlay composited over that.
paint(themeImage, cfg, width, height) ==
    LET image == themeImage.image_
        g == PaintGeometry(image, cfg, width, height)
        steps == PaintSteps(cfg, g)
        overlay == PaintOverlay(themeImage, cfg, g)
        Covering(x, y) == {i \in 1 .. Len(steps) : steps[i].on /\ InRect(steps[i].clip, x, y)}
        Background(x, y) ==
            IF Covering(x, y) = {} THEN Clear
            ELSE LET i == CHOOSE j \in Covering(x, y) : \A k \in Covering(x, y) : k <= j
                 IN  PaintSample(steps[i].part, image, cfg, g, x, y)
        Pixel(x, y) ==
            IF overlay.drawn /\ InRect(overlay.finalRect, x, y)
            THEN OverPixel(x - overlay.x, y - overlay.y, Background(x, y))
            ELSE Background(x, y)
    IN  [geometry |-> g,
         overlay |-> overlay,
         parts |-> {steps[i].part : i \in {j \in 1 .. Len(steps) : steps[j].on}},
         pixels |-> [q \in (0 .. (g.width - 1)) \X (0 .. (g.height - 1))
                        |-> Pixel(q[1], q[2])]]

\* Theme::paint: loadBackground, then the drawing.
Paint(cfg, width, height, decodedImage, decodedOverlay) ==
    LET config == themeConfig.background[cfg]
        built == ThemeImageBackground(config, decodedImage, decodedOverlay)
        out == loadBackground(backgroundImageTable_, cfg, built)
        drawn == paint(out.table[cfg], config, width, height)
    IN  /\ ~paintDone
        /\ backgroundImageTable_' = out.table
        /\ last' = Call("paint", cfg, out, out.table[cfg])
        /\ paintArgs' = [cfg |-> cfg, width |-> width, height |-> height]
        /\ canvas' = [width |-> drawn.geometry.width, height |-> drawn.geometry.height,
                      pixels |-> drawn.pixels, geometry |-> drawn.geometry,
                      overlay |-> drawn.overlay]
        /\ paintedParts' = drawn.parts
        /\ paintDone' = TRUE
        /\ UNCHANGED <<trayImageTable_, actionImageTable_, iconTheme_, name_,
                       themeConfig, requested, maskVars, labelVars>>

\* The configurations paint is given: every margin, and an overlay that is unset,
\* in the top-left corner, or in the bottom-right corner.
PaintMargins ==
    {Margin(l, r, t, b) : l \in 0 .. MaxMargin, r \in 0 .. MaxMargin,
                          t \in 0 .. MaxMargin, b \in 0 .. MaxMargin}

PaintConfigs ==
    {BackgroundImageConfig("panel.png", "", m) : m \in PaintMargins}
        \cup {[BackgroundImageConfig("panel.png", "badge.png", m)
                  EXCEPT !.gravity = gr] :
                  m \in PaintMargins, gr \in {"TopLeft", "BottomRight"}}

\* What the image file decodes to: nothing (the drawn fallback), or any size.
PaintDecodes ==
    {NullSurface}
        \cup {Surface("file", w, h) : w \in 1 .. MaxImage, h \in 1 .. MaxImage}

PaintInit ==
    /\ trayImageTable_ = EmptyTable
    /\ backgroundImageTable_ = EmptyTable
    /\ actionImageTable_ = EmptyTable
    /\ iconTheme_ = "hicolor"
    /\ name_ = "default"
    /\ themeConfig \in
           {[background |-> [c \in {"inputPanel.background"} |-> config],
             action |-> <<>>] : config \in PaintConfigs}
    /\ last = Call("load", "default", NoOutcome, FALSE)
    /\ requested = EmptyTable
    /\ MaskIdle
    /\ PaintIdle
    /\ LabelIdle

PaintNext ==
    \E width \in -1 .. MaxTarget, height \in -1 .. MaxTarget, d \in PaintDecodes :
        Paint("inputPanel.background", width, height, d, Surface("file", 1, 1))

SpecPaint == PaintInit /\ [][PaintNext]_vars

\* Theme::paint with every overlay placement: the nine gravities, offsets to
\* either side, a clip margin, the oversize flag, and overlays up to MaxOverlay
\* pixels a side over a background of MaxImage pixels a side.
MaxOverlay == 2

OverlayOffsets == {-1, 0, 1}

OverlayClipMargins == {Margin(0, 0, 0, 0), Margin(1, 0, 0, 1)}

OverlayConfigs ==
    {[BackgroundImageConfig("panel.png", "badge.png", Margin(1, 1, 1, 1))
         EXCEPT !.gravity = gr, !.overlayOffsetX = ox, !.overlayOffsetY = oy,
                !.overlayClipMargin = cm, !.hideOverlayIfOversize = hide] :
         gr \in Gravities, ox \in OverlayOffsets, oy \in OverlayOffsets,
         cm \in OverlayClipMargins, hide \in BOOLEAN}

OverlayInit ==
    /\ trayImageTable_ = EmptyTable
    /\ backgroundImageTable_ = EmptyTable
    /\ actionImageTable_ = EmptyTable
    /\ iconTheme_ = "hicolor"
    /\ name_ = "default"
    /\ themeConfig \in
           {[background |-> [c \in {"inputPanel.background"} |-> config],
             action |-> <<>>] : config \in OverlayConfigs}
    /\ last = Call("load", "default", NoOutcome, FALSE)
    /\ requested = EmptyTable
    /\ MaskIdle
    /\ PaintIdle
    /\ LabelIdle

OverlayNext ==
    \E width \in -1 .. MaxTarget, height \in -1 .. MaxTarget,
       ow \in 1 .. MaxOverlay, oh \in 1 .. MaxOverlay :
        Paint("inputPanel.background", width, height,
              Surface("file", MaxImage, MaxImage), Surface("file", ow, oh))

SpecOverlay == OverlayInit /\ [][OverlayNext]_vars

(***************************************************************************)
(* extractTextForLabel.  A label is valid UTF-8 text, modelled as the      *)
(* sequence of its code points; the delimiters are ASCII, so splitting the *)
(* bytes and splitting the code points give the same tokens.               *)
(***************************************************************************)
\* Longest label drawn from the alphabet.
MaxLabelLen == 5

\* FCITX_WHITESPACE "-_/|": form feed, newline, return, tab, vertical tab, space,
\* and the four punctuation marks.
Delimiters == {12, 10, 13, 9, 11, 32, 45, 95, 47, 124}
\* g_unichar_iszerowidth and g_unichar_iswide on the code points used here:
\* U+200B ZERO WIDTH SPACE and U+4E2D, a CJK ideograph.
ZeroWidthChars == {8203}
WideChars == {20013}

charWidth(c) ==
    IF c \in ZeroWidthChars THEN 0
    ELSE IF c \in WideChars THEN 2 ELSE 1

\* stringutils::split(label, delimiters): the maximal runs of non-delimiters, in
\* order, empty tokens skipped.
RECURSIVE SplitFrom(_, _, _, _)
SplitFrom(str, i, current, tokens) ==
    LET closed == IF current = <<>> THEN tokens ELSE Append(tokens, current)
    IN  IF i > Len(str) THEN closed
        ELSE IF str[i] \in Delimiters THEN SplitFrom(str, i + 1, <<>>, closed)
        ELSE SplitFrom(str, i + 1, Append(current, str[i]), tokens)

split(str) == SplitFrom(str, 1, <<>>, <<>>)

\* The loop over the characters of texts[0], from character i on.
RECURSIVE ExtractLoop(_, _, _, _)
ExtractLoop(text, i, text_, currentWidth) ==
    IF i > Len(text) THEN [text |-> text_, width |-> currentWidth]
    ELSE LET width == charWidth(text[i])
         IN  IF currentWidth + width <= 3
             THEN ExtractLoop(text, i + 1, Append(text_, text[i]), currentWidth + width)
             ELSE [text |-> text_, width |-> currentWidth]

\* The loop with the break left out: a character that does not fit is skipped
\* and later ones that fit are still appended.
RECURSIVE ExtractLoopSkipping(_, _, _, _)
ExtractLoopSkipping(text, i, text_, currentWidth) ==
    IF i > Len(text) THEN [text |-> text_, width |-> currentWidth]
    ELSE LET width == charWidth(text[i])
         IN  IF currentWidth + width <= 3
             THEN ExtractLoopSkipping(text, i + 1, Append(text_, text[i]),
                                      currentWidth + width)
             ELSE ExtractLoopSkipping(text, i + 1, text_, currentWidth)

extractTextForLabelNoBreak(label) ==
    LET texts == split(label)
    IN  IF texts = <<>> THEN [text |-> <<>>, width |-> 0]
        ELSE ExtractLoopSkipping(texts[1], 1, <<>>, 0)

extractTextForLabel(label) ==
    LET texts == split(label)
    IN  IF texts = <<>> THEN [text |-> <<>>, width |-> 0]
        ELSE ExtractLoop(texts[1], 1, <<>>, 0)

ExtractTextForLabel ==
    /\ ~labelDone
    /\ extracted' = extractTextForLabel(rawLabel)
    /\ labelDone' = TRUE
    /\ UNCHANGED <<rawLabel, iconSize, pixelSize, cacheVars, maskVars, paintVars>>

\* "us" and "en-US".
LabelUs == <<117, 115>>
LabelEnUS == <<101, 110, 45, 85, 83>>

\* The labels: every text of up to MaxLabelLen characters over a letter, two
\* delimiters, a wide and a zero-width character, and the two layout names.
LabelAlphabet == {97, 45, 32, 20013, 8203}

Labels ==
    UNION {[1 .. n -> LabelAlphabet] : n \in 0 .. MaxLabelLen} \cup {LabelUs, LabelEnUS}

LabelInit ==
    /\ rawLabel \in Labels
    /\ extracted = [text |-> <<>>, width |-> 0]
    /\ labelDone = FALSE
    /\ iconSize = 0
    /\ pixelSize = 0
    /\ CacheIdle
    /\ MaskIdle
    /\ PaintIdle

LabelNext == ExtractTextForLabel

SpecLabel == LabelInit /\ [][LabelNext]_vars

(***************************************************************************)
(* ThemeImage::drawTextIcon, up to the font description: the text and its  *)
(* width from extractTextForLabel, then the font pixel size.               *)
(***************************************************************************)
\* Largest icon size and longest label given to drawTextIcon.
MaxIconSize == 24
MaxIconLabelLen == 4

\* int pixelSize = size * 0.75 * (textWidth >= 3 ? (2.0 / textWidth) : 1.0), the
\* double truncated toward zero: 3 * size / 4, or 3 * size / (2 * textWidth).  The
\* quotients below are what IEEE double arithmetic yields for every size up to
\* 100000 and the text widths 0..3.  Then the test for a negative value.
fontPixelSize(size, textWidth) ==
    LET truncated == IF textWidth >= 3
                     THEN (3 * size) \div (2 * textWidth)
                     ELSE (3 * size) \div 4
    IN  IF truncated < 0 THEN 1 ELSE truncated

DrawTextIcon ==
    /\ ~labelDone
    /\ extracted' = extractTextForLabel(rawLabel)
    /\ pixelSize' = fontPixelSize(iconSize, extracted'.width)
    /\ labelDone' = TRUE
    /\ UNCHANGED <<rawLabel, iconSize, cacheVars, maskVars, paintVars>>

IconLabels == UNION {[1 .. n -> {97, 20013, 8203}] : n \in 0 .. MaxIconLabelLen}

TextIconInit ==
    /\ rawLabel \in IconLabels
    /\ iconSize \in 0 .. MaxIconSize
    /\ extracted = [text |-> <<>>, width |-> 0]
    /\ labelDone = FALSE
    /\ pixelSize = 0
    /\ CacheIdle
    /\ MaskIdle
    /\ PaintIdle

TextIconNext == DrawTextIcon

SpecTextIcon == TextIconInit /\ [][TextIconNext]_vars

(***************************************************************************)
(* Claims about the caches.                                                *)
(***************************************************************************)
LoadOps == {"loadBackground", "loadAction", "loadImage"}

Tables == <<trayImageTable_, backgroundImageTable_, actionImageTable_>>

\* C1: two consecutive calls of loadBackground, loadAction or loadImage with the
\* same arguments (no other call in between) return the same entry, construct no
\* ThemeImage the second time and change no table.
C1_CacheIdempotence ==
    [][(last'.op \in LoadOps /\ last.op = last'.op /\ last.arg = last'.arg)
          => /\ last'.ret = last.ret
             /\ ~last'.constructed
             /\ Tables' = Tables]_vars

\* A state after a loadImage that was answered from the table.
C1_Witness ==
    /\ last.op = "loadImage"
    /\ ~last.constructed
    /\ trayImageTable_[TrayKey(last.arg[1], last.arg[2])] = last.ret

AllImages ==
    {trayImageTable_[k] : k \in DOMAIN trayImageTable_}
        \cup {backgroundImageTable_[k] : k \in DOMAIN backgroundImageTable_}
        \cup {actionImageTable_[k] : k \in DOMAIN actionImageTable_}

\* C2 as claimed: every ThemeImage of every table, the action table's too, holds a
\* surface that is not null.
C2_EverySurfaceUsable == \A image \in AllImages : image.image_ # NullSurface

\* C2, amended: a tray ThemeImage holds a decoded file or the text icon, a
\* background ThemeImage a decoded file or the drawn background, never null; an
\* action ThemeImage holds a decoded file or null, and null when no image is set.
C2_FallbackExceptAction ==
    /\ \A k \in DOMAIN trayImageTable_ :
           trayImageTable_[k].image_.kind \in {"file", "text"}
    /\ \A c \in DOMAIN backgroundImageTable_ :
           /\ backgroundImageTable_[c].image_.kind \in {"file", "drawn"}
           /\ themeConfig.background[c].image = ""
                  => backgroundImageTable_[c].image_.kind = "drawn"
    /\ \A c \in DOMAIN actionImageTable_ :
           /\ actionImageTable_[c].image_.kind \in {"file", "null"}
           /\ themeConfig.action[c].image = ""
                  => actionImageTable_[c].image_ = NullSurface

\* A decode failure in each table: the text icon for an icon that was looked up,
\* the drawn background and the null action image for configured image files.
C2_Witness ==
    /\ \E k \in DOMAIN trayImageTable_ :
           trayImageTable_[k].image_.kind = "text" /\ trayImageTable_[k].icon # ""
    /\ \E c \in DOMAIN backgroundImageTable_ :
           /\ backgroundImageTable_[c].image_.kind = "drawn"
           /\ themeConfig.background[c].image # ""
    /\ \E c \in DOMAIN actionImageTable_ :
           /\ actionImageTable_[c].image_ = NullSurface
           /\ themeConfig.action[c].image # ""

\* C3 as claimed: the tray entry of every (icon, label) asked for since the table
\* was last cleared has the size of the latest loadImage request for that pair.
C3_EntryHasLatestSize ==
    \A r \in DOMAIN requested :
        /\ TrayKey(r[1], r[2]) \in DOMAIN trayImageTable_
        /\ trayImageTable_[TrayKey(r[1], r[2])].size_ = requested[r]

\* C4: reset and both loads leave the three tables empty; setIconTheme with another
\* name empties the tray table only and returns true, with the current name it
\* changes no table and returns false.
C4_EvictionScope ==
    [][/\ last'.op \in {"reset", "load", "loadRaw"}
           => Tables' = <<EmptyTable, EmptyTable, EmptyTable>>
       /\ last'.op = "setIconTheme"
           => IF last'.arg # iconTheme_
              THEN /\ trayImageTable_' = EmptyTable
                   /\ UNCHANGED <<backgroundImageTable_, actionImageTable_>>
                   /\ iconTheme_' = last'.arg
                   /\ last'.ret = TRUE
              ELSE /\ Tables' = Tables
                   /\ UNCHANGED iconTheme_
                   /\ last'.ret = FALSE]_vars

\* setIconTheme has just emptied the tray table and left the other two filled.
C4_Witness ==
    /\ last.op = "setIconTheme"
    /\ last.ret = TRUE
    /\ trayImageTable_ = EmptyTable
    /\ DOMAIN backgroundImageTable_ # {}
    /\ DOMAIN actionImageTable_ # {}

Kept(map, k) == k \in DOMAIN map' /\ map'[k] = map[k]

\* C5 as claimed: no call of loadBackground, loadAction or loadImage destroys an
\* entry of any table.
C5_LoadsDestroyNothing ==
    [][last'.op \in LoadOps
          => /\ \A k \in DOMAIN trayImageTable_ : Kept(trayImageTable_, k)
             /\ \A k \in DOMAIN backgroundImageTable_ : Kept(backgroundImageTable_, k)
             /\ \A k \in DOMAIN actionImageTable_ : Kept(actionImageTable_, k)]_vars

\* C5, amended: the one entry a load call destroys is the tray entry under the key
\* of a loadImage call that asks for another size than the entry's.
C5_LoadsDestroyOnlyResized ==
    [][last'.op \in LoadOps
          => /\ \A k \in DOMAIN trayImageTable_ :
                    \/ Kept(trayImageTable_, k)
                    \/ /\ last'.op = "loadImage"
                       /\ k = TrayKey(last'.arg[1], last'.arg[2])
                       /\ trayImageTable_[k].size_ # last'.arg[3]
             /\ \A k \in DOMAIN backgroundImageTable_ : Kept(backgroundImageTable_, k)
             /\ \A k \in DOMAIN actionImageTable_ : Kept(actionImageTable_, k)]_vars

\* loadImage has just replaced an entry while another entry stayed in the table.
C5_Witness ==
    /\ last.op = "loadImage"
    /\ last.erased
    /\ Cardinality(DOMAIN trayImageTable_) >= 2

(***************************************************************************)
(* Claims about Theme::mask.                                               *)
(***************************************************************************)
MaskPixels == (0 .. (maskWidth - 1)) \X (0 .. (maskHeight - 1))

Contains(r, p) ==
    /\ r.x <= p[1] /\ p[1] < r.x + r.width
    /\ r.y <= p[2] /\ p[2] < r.y + r.height

RectsContaining(p) == {i \in 1 .. Len(maskResult) : Contains(maskResult[i], p)}

\* C6: the rectangles mask returns cover exactly the set bits of the surface: each
\* opaque pixel lies in exactly one rectangle, no transparent pixel in any, and a
\* surface without an opaque pixel gives the empty list.
C6_MaskCoversExactly ==
    maskDone =>
        /\ \A p \in MaskPixels :
               Cardinality(RectsContaining(p))
                   = IF Opaque(maskData, p[1], p[2], little) THEN 1 ELSE 0
        /\ (\A p \in MaskPixels : ~Opaque(maskData, p[1], p[2], little))
               => maskResult = <<>>

\* A surface whose width is no multiple of 8, whose first byte is skipped whole
\* (it equals the clear running state) and which has opaque pixels in two rows.
C6_Witness ==
    /\ maskDone
    /\ maskWidth > 8 /\ maskWidth % 8 # 0
    /\ maskHeight = 2
    /\ maskData[1][1] = 0 /\ maskData[1][2] = 29
    /\ maskData[2][1] = 255 /\ maskData[2][2] = 255
    /\ Len(maskResult) >= 2

FullyOpaque == \A p \in MaskPixels : Opaque(maskData, p[1], p[2], little)

\* C7: for a fully opaque surface of W x H the spans are (0, y, W, 1), one per row,
\* and mask returns the single rectangle (0, 0, W, H).
C7_OpaqueGivesOneRect ==
    (maskDone /\ FullyOpaque) =>
        /\ maskSpans = [y \in 1 .. maskHeight |-> Rect(0, y - 1, maskWidth, 1)]
        /\ maskResult = <<Rect(0, 0, maskWidth, maskHeight)>>

\* A fully opaque surface of two rows whose last byte is partial.
C7_Witness ==
    /\ maskDone
    /\ FullyOpaque
    /\ maskHeight = 2
    /\ maskWidth > 8 /\ maskWidth % 8 # 0
    /\ maskResult = <<Rect(0, 0, maskWidth, maskHeight)>>

(***************************************************************************)
(* Claims about Theme::paint.                                              *)
(***************************************************************************)
PaintedImage == last.ret.image_
PaintedConfig == themeConfig.background[paintArgs.cfg]
PaintedMargin == PaintedConfig.margin

\* The four corner regions of the output, each paired with the offset that takes
\* one of its pixels to the corresponding corner of the source image.
Corners ==
    LET m == PaintedMargin
        shiftX == PaintedImage.width - canvas.width
        shiftY == PaintedImage.height - canvas.height
    IN  { [rect |-> Rect(0, 0, m.marginLeft, m.marginTop), sx |-> 0, sy |-> 0],
          [rect |-> Rect(canvas.width - m.marginRight, 0, m.marginRight, m.marginTop),
           sx |-> shiftX, sy |-> 0],
          [rect |-> Rect(0, canvas.height - m.marginBottom, m.marginLeft, m.marginBottom),
           sx |-> 0, sy |-> shiftY],
          [rect |-> Rect(canvas.width - m.marginRight, canvas.height - m.marginBottom,
                         m.marginRight, m.marginBottom),
           sx |-> shiftX, sy |-> shiftY] }

CornerPixels(c) ==
    (RectLeft(c.rect) .. (RectRight(c.rect) - 1))
        \X (RectTop(c.rect) .. (RectBottom(c.rect) - 1))

TargetCoversMargins ==
    /\ canvas.width >= PaintedMargin.marginLeft + PaintedMargin.marginRight
    /\ canvas.height >= PaintedMargin.marginTop + PaintedMargin.marginBottom

\* The source image has a stretchable middle: the resize region is not clamped.
ImageExceedsMargins ==
    /\ PaintedImage.width > PaintedMargin.marginLeft + PaintedMargin.marginRight
    /\ PaintedImage.height > PaintedMargin.marginTop + PaintedMargin.marginBottom

\* What lies under the overlay at a pixel.
Under(pixel) == IF pixel[1] = "over" THEN pixel[4] ELSE pixel

\* C8 as stated: for every margin and every target at least as large as the
\* opposing margins' sums, each corner pixel of the output is the pixel of the
\* source image's corresponding corner, unscaled and not overwritten.
C8_CornersAreSourceCorners ==
    (paintDone /\ TargetCoversMargins) =>
        \A c \in Corners : \A q \in CornerPixels(c) :
            canvas.pixels[q] = <<"image", q[1] + c.sx, q[2] + c.sy>>

\* C8 amended: when in addition the source image is larger than the opposing
\* margins' sums, the nine background parts leave in each corner pixel the source's
\* corresponding corner pixel, unscaled; only a drawn overlay is composited over
\* it, and only inside the overlay's final rectangle.
C8_CornersUnderOverlay ==
    (paintDone /\ TargetCoversMargins /\ ImageExceedsMargins) =>
        \A c \in Corners : \A q \in CornerPixels(c) :
            /\ Under(canvas.pixels[q]) = <<"image", q[1] + c.sx, q[2] + c.sy>>
            /\ canvas.pixels[q] # Under(canvas.pixels[q]) <=>
                   (canvas.overlay.drawn /\ InRect(canvas.overlay.finalRect, q[1], q[2]))

C8_Witness ==
    /\ paintDone
    /\ ImageExceedsMargins
    /\ PaintedImage.kind = "file"
    /\ PaintedMargin = Margin(1, 1, 1, 1)
    /\ canvas.width = PaintedImage.width
    /\ canvas.height < PaintedImage.height
    /\ canvas.height >= 2
    /\ canvas.overlay.drawn
    /\ canvas.pixels[<<0, 0>>] = OverPixel(0, 0, <<"image", 0, 0>>)
    /\ canvas.pixels[<<canvas.width - 1, canvas.height - 1>>]
           = <<"image", PaintedImage.width - 1, PaintedImage.height - 1>>

\* C9 as stated: when width and height are both negative, the scale factors are 1
\* and every pixel of the centre region equals the source pixel at the same offset
\* from (marginLeft, marginTop).
C9_NaturalSizeReproducesCenter ==
    (paintDone /\ paintArgs.width < 0 /\ paintArgs.height < 0) =>
        LET g == canvas.geometry
            m == PaintedMargin
        IN  /\ g.targetResizeWidth = g.resizeWidth
            /\ g.targetResizeHeight = g.resizeHeight
            /\ \A kx \in 0 .. (g.resizeWidth - 1), ky \in 0 .. (g.resizeHeight - 1) :
                   /\ <<m.marginLeft + kx, m.marginTop + ky>> \in DOMAIN canvas.pixels
                   /\ Under(canvas.pixels[<<m.marginLeft + kx, m.marginTop + ky>>])
                          = ImagePixel(PaintedImage, m.marginLeft + kx, m.marginTop + ky)

(***************************************************************************)
(* Claims about extractTextForLabel.                                       *)
(***************************************************************************)
RECURSIVE DisplayWidth(_)
DisplayWidth(text) ==
    IF text = <<>> THEN 0
    ELSE DisplayWidth(SubSeq(text, 1, Len(text) - 1)) + charWidth(text[Len(text)])

\* The label's first token, described by its position: the first maximal run of
\* characters that are not delimiters.
IsFirstToken(label, from, to) ==
    /\ from <= to
    /\ \A i \in 1 .. (from - 1) : label[i] \in Delimiters
    /\ \A i \in from .. to : label[i] \notin Delimiters
    /\ to = Len(label) \/ label[to + 1] \in Delimiters

HasToken(label) == \E i \in 1 .. Len(label) : label[i] \notin Delimiters

\* The result is the longest prefix of the first token whose display width is at
\* most 3, with that width; ("", 0) when there is no token.
LongestFittingPrefix(label, result) ==
    IF ~HasToken(label) THEN result = [text |-> <<>>, width |-> 0]
    ELSE \E from \in 1 .. Len(label), to \in 1 .. Len(label) :
             /\ IsFirstToken(label, from, to)
             /\ LET token == SubSeq(label, from, to)
                IN  \E n \in 0 .. Len(token) :
                        /\ result.text = SubSeq(token, 1, n)
                        /\ result.width = DisplayWidth(result.text)
                        /\ result.width <= 3
                        /\ \A k \in (n + 1) .. Len(token) :
                               DisplayWidth(SubSeq(token, 1, k)) > 3

LayoutNameExamples ==
    /\ rawLabel = LabelUs => extracted = [text |-> <<117, 115>>, width |-> 2]
    /\ rawLabel = LabelEnUS => extracted = [text |-> <<101, 110>>, width |-> 2]

OneWideCharacter == Len(extracted.text) = 1 /\ extracted.width = 2

\* C10 as stated: the result is the longest fitting prefix of the first token,
\* "us" gives ("us", 2), "en-US" gives ("en", 2), and every label that begins with
\* a wide character gives a 1-character, width-2 result.
C10_GreedyPrefixAndWideStart ==
    labelDone =>
        /\ LongestFittingPrefix(rawLabel, extracted)
        /\ LayoutNameExamples
        /\ (rawLabel # <<>> /\ rawLabel[1] \in WideChars) => OneWideCharacter

\* C10 amended: the same, except that a label beginning with a wide character
\* gives a 1-character, width-2 result exactly when that character ends the first
\* token or is followed by another wide character.
C10_GreedyPrefixAndWidePair ==
    labelDone =>
        /\ LongestFittingPrefix(rawLabel, extracted)
        /\ LayoutNameExamples
        /\ (rawLabel # <<>> /\ rawLabel[1] \in WideChars) =>
               (OneWideCharacter <=>
                    \/ Len(rawLabel) = 1
                    \/ rawLabel[2] \in Delimiters
                    \/ rawLabel[2] \in WideChars)

C10_Witness ==
    /\ labelDone
    /\ rawLabel = <<32, 20013, 20013, 97>>
    /\ extracted = [text |-> <<20013>>, width |-> 2]

(***************************************************************************)
(* Claims about the overlay of Theme::paint.                               *)
(***************************************************************************)
PaintedOverlay == last.ret.overlay_

OverlayClipRect ==
    LET cm == PaintedConfig.overlayClipMargin
    IN  Rect(cm.marginLeft, cm.marginTop,
             canvas.width - cm.marginLeft - cm.marginRight,
             canvas.height - cm.marginTop - cm.marginBottom)

\* paint got as far as placing the overlay: there is one, and the clip rectangle
\* has a positive size.
OverlayPlaced ==
    /\ paintDone
    /\ PaintedOverlay # NullSurface
    /\ OverlayClipRect.width > 0
    /\ OverlayClipRect.height > 0

GravityColumn(gravity) ==
    CASE gravity \in {"TopLeft", "CenterLeft", "BottomLeft"} -> "left"
      [] gravity \in {"TopCenter", "Center", "BottomCenter"} -> "center"
      [] gravity \in {"TopRight", "CenterRight", "BottomRight"} -> "right"

GravityRow(gravity) ==
    CASE gravity \in {"TopLeft", "TopCenter", "TopRight"} -> "top"
      [] gravity \in {"CenterLeft", "Center", "CenterRight"} -> "center"
      [] gravity \in {"BottomLeft", "BottomCenter", "BottomRight"} -> "bottom"

\* The position along one axis: start, middle or end of the target's extent.
AxisPosition(place, extent, overlayExtent, offset) ==
    CASE place \in {"left", "top"} -> offset
      [] place = "center" -> CDiv(extent - overlayExtent, 2) + offset
      [] place \in {"right", "bottom"} -> extent - overlayExtent - offset

ExpectedOverlayRect ==
    Rect(AxisPosition(GravityColumn(PaintedConfig.gravity), canvas.width,
                      PaintedOverlay.width, PaintedConfig.overlayOffsetX),
         AxisPosition(GravityRow(PaintedConfig.gravity), canvas.height,
                      PaintedOverlay.height, PaintedConfig.overlayOffsetY),
         PaintedOverlay.width, PaintedOverlay.height)

OverlaidPixels == {q \in DOMAIN canvas.pixels : canvas.pixels[q][1] = "over"}

\* C11: the overlay rectangle has its x from the gravity's column and its y from
\* the gravity's row, each with its own extent and offset; every overlaid pixel
\* shows the overlay pixel at its distance from that position; and with gravity
\* BottomRight, zero offsets and zero clip margin the rectangle's bottom-right
\* corner is (width, height).
C11_GravityPlacesOverlay ==
    OverlayPlaced =>
        /\ canvas.overlay.rect = ExpectedOverlayRect
        /\ canvas.overlay.x = ExpectedOverlayRect.x
        /\ canvas.overlay.y = ExpectedOverlayRect.y
        /\ \A q \in OverlaidPixels :
               /\ canvas.pixels[q][2] = q[1] - ExpectedOverlayRect.x
               /\ canvas.pixels[q][3] = q[2] - ExpectedOverlayRect.y
        /\ ( /\ PaintedConfig.gravity = "BottomRight"
             /\ PaintedConfig.overlayOffsetX = 0
             /\ PaintedConfig.overlayOffsetY = 0
             /\ PaintedConfig.overlayClipMargin = Margin(0, 0, 0, 0) ) =>
               /\ RectRight(canvas.overlay.rect) = canvas.width
               /\ RectBottom(canvas.overlay.rect) = canvas.height

C11_Witness ==
    /\ OverlayPlaced
    /\ PaintedConfig.gravity = "BottomRight"
    /\ PaintedConfig.overlayOffsetX = 0
    /\ PaintedConfig.overlayOffsetY = 0
    /\ PaintedConfig.overlayClipMargin = Margin(0, 0, 0, 0)
    /\ PaintedOverlay.width = 2
    /\ PaintedOverlay.height = 1
    /\ canvas.width = 3
    /\ canvas.height = 3
    /\ canvas.overlay.rect = Rect(1, 2, 2, 1)
    /\ OverlaidPixels = {<<1, 2>>, <<2, 2>>}

\* The overlay rectangle sticks out of the clip rectangle on some side.
ExceedsClip(rect, clip) ==
    \/ RectLeft(rect) < RectLeft(clip)
    \/ RectTop(rect) < RectTop(clip)
    \/ RectRight(rect) > RectRight(clip)
    \/ RectBottom(rect) > RectBottom(clip)

\* The same paint for a theme image that has no overlay.
NoOverlayComposite ==
    paint([last.ret EXCEPT !.overlay_ = NullSurface], PaintedConfig,
          paintArgs.width, paintArgs.height).pixels

\* The target pixels lying both in the overlay rectangle and in the clip rectangle.
OverlayIntersection ==
    {q \in DOMAIN canvas.pixels :
        /\ InRect(ExpectedOverlayRect, q[1], q[2])
        /\ InRect(OverlayClipRect, q[1], q[2])}

\* C12: with hideOverlayIfOversize set and the unclipped overlay rectangle
\* exceeding the clip rectangle on any side, no overlay pixel is drawn and the
\* output is the composite without an overlay; with the flag clear and a non-empty
\* intersection, exactly the intersection is overlaid, each pixel with the overlay
\* pixel at its distance from the overlay's position.
C12_OversizeOverlayHidden ==
    (paintDone /\ PaintedOverlay # NullSurface) =>
        /\ ( /\ PaintedConfig.hideOverlayIfOversize
             /\ ExceedsClip(ExpectedOverlayRect, OverlayClipRect) ) =>
               /\ OverlaidPixels = {}
               /\ canvas.pixels = NoOverlayComposite
        /\ ( /\ ~PaintedConfig.hideOverlayIfOversize
             /\ OverlayIntersection # {} ) =>
               /\ OverlaidPixels = OverlayIntersection
               /\ \A q \in DOMAIN canvas.pixels :
                      canvas.pixels[q] =
                          IF q \in OverlayIntersection
                          THEN OverPixel(q[1] - ExpectedOverlayRect.x,
                                         q[2] - ExpectedOverlayRect.y,
                                         NoOverlayComposite[q])
                          ELSE NoOverlayComposite[q]

C12_Witness ==
    /\ paintDone
    /\ PaintedOverlay = Surface("file", 2, 2)
    /\ PaintedConfig.hideOverlayIfOversize
    /\ PaintedConfig.gravity = "TopLeft"
    /\ PaintedConfig.overlayOffsetX = -1
    /\ PaintedConfig.overlayOffsetY = 0
    /\ PaintedConfig.overlayClipMargin = Margin(0, 0, 0, 0)
    /\ canvas.width = 3
    /\ canvas.height = 3
    /\ OverlayIntersection = {<<0, 0>>, <<0, 1>>}
    /\ OverlaidPixels = {}
    /\ canvas.pixels = NoOverlayComposite

(***************************************************************************)
(* Claims about drawTextIcon.                                              *)
(***************************************************************************)
\* C13 as stated: for every icon size >= 0 and every extracted text width in
\* 0..3, the pixel size handed to the font description is at least 1.
C13_PixelSizeAtLeastOne ==
    (labelDone /\ iconSize >= 0 /\ extracted.width \in 0 .. 3) => pixelSize >= 1

(***************************************************************************)
(* Claims about degenerate geometry in Theme::paint.                       *)
(***************************************************************************)
\* The condition under which the claim lets each part be painted.
PartCondition(part) ==
    LET m == PaintedMargin
        g == canvas.geometry
    IN  CASE part = 1 -> m.marginLeft # 0 /\ m.marginBottom # 0
          [] part = 3 -> m.marginRight # 0 /\ m.marginBottom # 0
          [] part = 7 -> m.marginLeft # 0 /\ m.marginTop # 0
          [] part = 9 -> m.marginRight # 0 /\ m.marginTop # 0
          [] part = 8 -> m.marginTop # 0 /\ g.targetResizeWidth > 0
          [] part = 2 -> m.marginBottom # 0 /\ g.targetResizeWidth > 0
          [] part = 4 -> m.marginLeft # 0 /\ g.targetResizeHeight > 0
          [] part = 6 -> m.marginRight # 0 /\ g.targetResizeHeight > 0
          [] part = 5 -> g.targetResizeHeight > 0 /\ g.targetResizeWidth > 0

\* C14: for every image, margin set and requested target, the resize width and
\* height that divide the target stretch are at least 1, and each part is painted
\* exactly when its own condition holds, whichever other parts were skipped.
C14_DegenerateGeometrySkipsParts ==
    paintDone =>
        /\ canvas.geometry.resizeWidth >= 1
        /\ canvas.geometry.resizeHeight >= 1
        /\ paintedParts \subseteq 1 .. 9
        /\ \A part \in 1 .. 9 : part \in paintedParts <=> PartCondition(part)

C14_Witness ==
    /\ paintDone
    /\ PaintedMargin = Margin(1, 1, 1, 1)
    /\ PaintedImage = Surface("file", 1, 1)
    /\ canvas.geometry.resizeWidth = 1
    /\ canvas.geometry.resizeHeight = 1
    /\ canvas.width = 3
    /\ canvas.height = 1
    /\ canvas.geometry.targetResizeHeight < 0
    /\ paintedParts = {1, 3, 7, 9, 8, 2}

(***************************************************************************)
(* Claims about the tray cache key.                                        *)
(***************************************************************************)
\* C15 as stated: after any sequence of loadImage calls, every loadImage call
\* returns an image constructed from the icon and label it was called with,
\* never an entry built for another (icon, label) pair.
C15_ImageOfRequestedIconAndLabel ==
    last.op = "loadImage" =>
        /\ last.ret.icon = last.arg[1]
        /\ last.ret.label = last.arg[2]

====
